---- MODULE Spec2Model ----
(***************************************************************************)
(* Personal Library Manager (library_manager.py): the catalog kept by      *)
(* LibraryManager, its JSON backing file, and the operations of the menu.  *)
(*                                                                         *)
(* Text is a sequence of character codes (68 = "D", 100 = "d", 32 = " "),   *)
(* so that str.strip, str.lower and the substring test are computed.       *)
(* The catalog self.books holds each Book object once (every append and    *)
(* every load builds new objects), so a reference to one of its objects is *)
(* modelled as the object's position in self.books.  Book defines no       *)
(* __eq__, so == between books (list.remove) is identity.                  *)
(***************************************************************************)
EXTENDS Integers, Sequences, FiniteSets, TLC

\* Largest catalog the model builds (add_book is not offered beyond it).
MaxBooks == 4

VARIABLES books, file, pc, last

vars == <<books, file, pc, last>>

(***************************************************************************)
(* Text: str.strip, str.lower, the `in` test on strings                    *)
(***************************************************************************)

IsSpace(c) == c = 32 \/ (c >= 9 /\ c <= 13)

RECURSIVE LStrip(_)
LStrip(s) == IF s # <<>> /\ IsSpace(Head(s)) THEN LStrip(Tail(s)) ELSE s

RECURSIVE RStrip(_)
RStrip(s) ==
    IF s # <<>> /\ IsSpace(s[Len(s)]) THEN RStrip(SubSeq(s, 1, Len(s) - 1)) ELSE s

\* str.strip()
Strip(s) == RStrip(LStrip(s))

LowerChar(c) == IF c >= 65 /\ c <= 90 THEN c + 32 ELSE c

\* str.lower()
Lower(s) == [i \in 1..Len(s) |-> LowerChar(s[i])]

\* a in b, for two strings
IsSubstring(a, b) ==
    \E i \in 0..(Len(b) - Len(a)) : SubSeq(b, i + 1, i + Len(a)) = a

(***************************************************************************)
(* Book                                                                    *)
(***************************************************************************)

\* Book.__init__: the attributes of the new object
Book(title, author, year, genre, read) ==
    [title |-> title, author |-> author, year |-> year, genre |-> genre, read |-> read]

\* Book.to_dict
to_dict(book) ==
    [title |-> book.title, author |-> book.author, year |-> book.year,
     genre |-> book.genre, read |-> book.read]

(***************************************************************************)
(* Values json.load returns: a tag t and the payload.  A dict's payload m  *)
(* is a function from its keys; a list's payload is the sequence of items. *)
(***************************************************************************)

JInt(n) == [t |-> "int", n |-> n]
JStr(s) == [t |-> "str", s |-> s]
JList(items) == [t |-> "list", items |-> items]
JDict(m) == [t |-> "dict", m |-> m]

\* The keys in the order Book.from_dict reads them (and to_dict writes them).
KeyOrder == <<"title", "author", "year", "genre", "read">>

\* data[key]: the value, or the exception a subscript raises
Subscript(data, key) ==
    IF data.t # "dict" THEN [raised |-> "TypeError"]
    ELSE IF key \notin DOMAIN data.m THEN [raised |-> "KeyError"]
    ELSE [raised |-> "none", value |-> data.m[key]]

\* Book.from_dict read data['author'] for the title
from_dict_swapped(data) ==
    LET bad == {i \in 1..5 : Subscript(data, KeyOrder[i]).raised # "none"}
    IN  IF bad # {}
        THEN [raised |-> Subscript(data, KeyOrder[CHOOSE i \in bad : \A j \in bad : i <= j]).raised]
        ELSE [raised |-> "none",
              book |-> Book(data.m["author"], data.m["title"], data.m["year"],
                        data.m["genre"], data.m["read"])]

\* Book.from_dict: the five subscripts are evaluated in order, the first that
\* raises ends the call
from_dict(data) ==
    LET bad == {i \in 1..5 : Subscript(data, KeyOrder[i]).raised # "none"}
    IN  IF bad # {}
        THEN [raised |-> Subscript(data, KeyOrder[CHOOSE i \in bad : \A j \in bad : i <= j]).raised]
        ELSE [raised |-> "none",
              book |-> Book(data.m["title"], data.m["author"], data.m["year"],
                        data.m["genre"], data.m["read"])]

(***************************************************************************)
(* The backing file.  Its content is Document(v), a text json.load parses  *)
(* to v (what json.dump(v) writes), "garbage" (a text json.load rejects:   *)
(* an empty or cut-off file) or "undecodable" (bytes that are not text).   *)
(***************************************************************************)

Document(v) == [kind |-> "json", value |-> v]
Garbage == [kind |-> "garbage"]
Undecodable == [kind |-> "undecodable"]

\* readable: open(filename, 'r') succeeds; writable: open(filename, 'w')
\* succeeds (the permissions of the file, or of its directory when the file
\* is missing: nothing but this program touches them, and it never does)
File(exists, readable, writable, content) ==
    [exists |-> exists, readable |-> readable, writable |-> writable,
     content |-> content]

Missing == File(FALSE, FALSE, TRUE, Garbage)
MissingReadOnly == File(FALSE, FALSE, FALSE, Garbage)
Present(content) == File(TRUE, TRUE, TRUE, content)
ReadOnly(content) == File(TRUE, TRUE, FALSE, content)
Unreadable(content) == File(TRUE, FALSE, TRUE, content)

\* json.dump(obj, file, indent=4) of a list of dicts: the text written
json_dump(dicts) == Document(JList([i \in 1..Len(dicts) |-> JDict(dicts[i])]))

\* json.load(file)
json_load(content) ==
    IF content.kind = "json" THEN [raised |-> "none", value |-> content.value]
    ELSE IF content.kind = "garbage" THEN [raised |-> "JSONDecodeError"]
    ELSE [raised |-> "UnicodeDecodeError"]

\* `for book_data in data`: the items iterated, or TypeError for a value that
\* is not iterable; a dict iterates its keys, a string its characters
Iterate(data) ==
    IF data.t = "list" THEN [raised |-> "none", items |-> data.items]
    ELSE IF data.t = "dict"
    THEN [raised |-> "none",
          items |-> LET ks == {i \in 1..5 : KeyOrder[i] \in DOMAIN data.m}
                        RECURSIVE Keys(_)
                        Keys(S) == IF S = {} THEN <<>>
                                   ELSE LET i == CHOOSE x \in S : \A y \in S : x <= y
                                        IN  <<JStr(KeyOrder[i])>> \o Keys(S \ {i})
                    IN  Keys(ks)]
    ELSE IF data.t = "str"
    THEN [raised |-> "none", items |-> [i \in 1..Len(data.s) |-> JStr(<<data.s[i]>>)]]
    ELSE [raised |-> "TypeError"]

\* [Book.from_dict(book_data) for book_data in data]: the books built so far
\* are dropped when an item raises
RECURSIVE Comprehension(_, _)
Comprehension(items, acc) ==
    IF items = <<>> THEN [raised |-> "none", books |-> acc]
    ELSE LET r == from_dict(Head(items))
         IN  IF r.raised # "none" THEN [raised |-> r.raised]
             ELSE Comprehension(Tail(items), Append(acc, r.book))

\* except json.JSONDecodeError alone
LoadCaught_jsonOnly == {"JSONDecodeError"}

\* The exceptions load_library's except clause names
LoadCaught == {"JSONDecodeError", "KeyError"}

\* LibraryManager.load_library, in a new process (self.books = [] before it):
\* the catalog, what it printed, and the exception that left it, if any
load_library(f) ==
    IF ~f.exists THEN [raised |-> "none", books |-> <<>>, printed |-> <<>>]
    ELSE IF ~f.readable THEN [raised |-> "PermissionError", books |-> <<>>, printed |-> <<>>]
    ELSE LET parsed == json_load(f.content)
             it == Iterate(parsed.value)
             built == Comprehension(it.items, <<>>)
             exc == IF parsed.raised # "none" THEN parsed.raised
                    ELSE IF it.raised # "none" THEN it.raised
                    ELSE built.raised
         IN  IF exc = "none"
             THEN [raised |-> "none", books |-> built.books,
                   printed |-> <<"Loading your library">>]
             ELSE IF exc \in LoadCaught
             THEN [raised |-> "none", books |-> <<>>,
                   printed |-> <<"Error loading library file. Starting with empty library.">>]
             ELSE [raised |-> exc, books |-> <<>>, printed |-> <<>>]

(***************************************************************************)
(* save_library.  open(filename, 'w') raises when the file is not          *)
(* writable, and the file is left as it was.  Otherwise the file is        *)
(* truncated, and fault is what the disk does to the writes: "none", or    *)
(* "write" (a write raises, for a full disk say: a cut-off text is left).  *)
(* Both exceptions are OSError, which IOError names.                       *)
(***************************************************************************)

Faults == {"none", "write"}

\* save_library opened the file with 'a': the text is added to what is there
save_library_append(bks, f, fault) ==
    LET dicts == [i \in 1..Len(bks) |-> to_dict(bks[i])]
    IN  IF ~f.writable
        THEN [file |-> f, failure |-> "open", returned |-> "None", raised |-> "none",
              printed |-> <<"Error saving library to file.">>]
        ELSE IF fault = "none"
        THEN [file |-> File(TRUE, f.exists => f.readable, TRUE,
                            IF f.exists THEN Garbage ELSE json_dump(dicts)),
              failure |-> "none", returned |-> "None", raised |-> "none",
              printed |-> <<"Saving your library">>]
        ELSE [file |-> File(TRUE, f.exists => f.readable, TRUE, Garbage),
              failure |-> "write", returned |-> "None", raised |-> "none",
              printed |-> <<"Error saving library to file.">>]

\* LibraryManager.save_library: the file afterwards, the failure met, what
\* the caller gets back (the value returned, the exception raised) and what
\* was printed
save_library(bks, f, fault) ==
    LET dicts == [i \in 1..Len(bks) |-> to_dict(bks[i])]
    IN  IF ~f.writable
        THEN [file |-> f, failure |-> "open", returned |-> "None", raised |-> "none",
              printed |-> <<"Error saving library to file.">>]
        ELSE IF fault = "none"
        THEN [file |-> File(TRUE, f.exists => f.readable, TRUE, json_dump(dicts)),
              failure |-> "none", returned |-> "None", raised |-> "none",
              printed |-> <<"Saving your library">>]
        ELSE [file |-> File(TRUE, f.exists => f.readable, TRUE, Garbage),
              failure |-> "write", returned |-> "None", raised |-> "none",
              printed |-> <<"Error saving library to file.">>]

(***************************************************************************)
(* The files the program may find when it is first started                 *)
(***************************************************************************)

RecordA ==
    [title |-> <<68, 117>>, author |-> <<65, 98>>, year |-> 1965,
     genre |-> <<83, 70>>, read |-> FALSE]

RecordB ==
    [title |-> <<100, 85>>, author |-> <<66>>, year |-> 1966,
     genre |-> <<70, 97>>, read |-> TRUE]

\* RecordB without its year
RecordNoYear ==
    [title |-> <<100, 85>>, author |-> <<66>>, genre |-> <<70, 97>>, read |-> TRUE]

InitialFile(i) ==
    CASE i = 1 -> Missing
      [] i = 2 -> Unreadable(Document(JList(<<JDict(RecordA)>>)))
      [] i = 3 -> Present(Garbage)
      [] i = 4 -> Present(Undecodable)
      [] i = 5 -> Present(Document(JInt(5)))
      [] i = 6 -> Present(Document(JList(<<JInt(5)>>)))
      [] i = 7 -> Present(Document(JDict(RecordA)))
      [] i = 8 -> Present(Document(JList(<<>>)))
      [] i = 9 -> Present(Document(JList(<<JDict(RecordA), JDict(RecordB)>>)))
      [] i = 10 -> Present(Document(JList(<<JDict(RecordA), JDict(RecordNoYear)>>)))
      [] i = 11 -> Present(Document(JList(<<JDict(RecordNoYear), JInt(5)>>)))
      [] i = 12 -> Present(Document(JList(<<JInt(5), JDict(RecordNoYear)>>)))
      [] i = 13 -> Present(Document(JDict(<<>>)))
      [] i = 14 -> Present(Document(JList(<<JDict(RecordA), JDict(RecordB),
                                            JDict(RecordA), JDict(RecordB)>>)))
      [] i = 15 -> ReadOnly(Document(JList(<<JDict(RecordA), JDict(RecordB)>>)))
      [] OTHER -> MissingReadOnly

(***************************************************************************)
(* The process: "start" (not yet run), "menu" (LibraryManager built, run() *)
(* waits for a choice), "crashed" (an exception left the program).         *)
(* last is the operation that ran last: its inputs, what it printed, the   *)
(* fault its save met and whether the save before that one had failed.     *)
(***************************************************************************)

Init ==
    /\ \E i \in 1..16 : file = InitialFile(i)
    /\ books = <<>>
    /\ pc = "start"
    /\ last = [name |-> "none"]

\* LibraryManager.__init__: self.books = [], then load_library
LibraryManager_init ==
    LET r == load_library(file)
    IN  /\ books' = r.books
        /\ pc' = IF r.raised = "none" THEN "menu" ELSE "crashed"
        /\ last' = [name |-> "load", raised |-> r.raised, out |-> r.printed]
        /\ UNCHANGED file

\* __main__: the program is run for the first time
Start ==
    /\ pc = "start"
    /\ LibraryManager_init

\* run(), choice 6 (which saves nothing), and the program is run again
Restart ==
    /\ pc = "menu"
    /\ LibraryManager_init

(***************************************************************************)
(* add_book                                                                *)
(***************************************************************************)

\* What the user types at add_book's prompts; year and read are the answers
\* the two validation loops let through (an int >= 0, yes or no).
AddInputs ==
    { [title |-> <<68, 117>>, author |-> <<65, 98>>, year |-> 1965,
       genre |-> <<83, 70>>, read |-> "no"],
      [title |-> <<100, 85, 32>>, author |-> <<66>>, year |-> 1966,
       genre |-> <<70, 97>>, read |-> "yes"],
      [title |-> <<69, 109>>, author |-> <<32, 97, 66>>, year |-> 1965,
       genre |-> <<70, 97>>, read |-> "yes"] }

\* lines 110-111: the Book built from the answers
NewBook(inp) ==
    Book(Strip(inp.title), Strip(inp.author), inp.year, Strip(inp.genre),
         inp.read = "yes")

\* self.books.append(new_book) put the book first
AppendedFirst(bks, inp) == <<NewBook(inp)>> \o bks

\* self.books.append(new_book)
Appended(bks, inp) == Append(bks, NewBook(inp))

\* The save of the operation before this one failed
PrevSaveFailed ==
    last.name \in {"add", "remove"} /\ last.saved /\ last.fault # "none"

\* add_book; faults are the faults its save may meet
add_book(inp, faults) ==
    /\ pc = "menu"
    /\ Len(books) < MaxBooks
    /\ \E fault \in faults :
       LET s == save_library(Appended(books, inp), file, fault)
       IN  /\ books' = Appended(books, inp)
           /\ file' = s.file
           /\ last' = [name |-> "add", input |-> inp, saved |-> TRUE, fault |-> s.failure,
                       afterFailed |-> PrevSaveFailed,
                       saveSeen |-> [returned |-> s.returned, raised |-> s.raised],
                       out |-> s.printed \o <<"Book added successfully!">>]
           /\ UNCHANGED pc

(***************************************************************************)
(* remove_book                                                             *)
(***************************************************************************)

\* What the user types at remove_book's title prompt
RemoveInputs == { <<32, 100, 117>>, <<69, 77>>, <<68>>, <<120>> }

\* Book defined __eq__ on the title: bks[j] == the object at position ref
BookEqByTitle(bks, j, ref) == Lower(bks[j].title) = Lower(bks[ref].title)

\* bks[j] == x, for x the object at position ref: Book defines no __eq__, so
\* the comparison is `bks[j] is x`
BookEq(bks, j, ref) == j = ref

\* list.remove(x), for x the object at position ref: the list without its
\* first item equal to x
ListRemove(bks, ref) ==
    LET hits == {j \in 1..Len(bks) : BookEq(bks, j, ref)}
        at == CHOOSE j \in hits : \A k \in hits : j <= k
    IN  SubSeq(bks, 1, at - 1) \o SubSeq(bks, at + 1, Len(bks))

\* A list comprehension over self.books keeps the list's order: the
\* positions S it selects, in increasing order
RECURSIVE Ascending(_)
Ascending(S) ==
    IF S = {} THEN <<>>
    ELSE LET m == CHOOSE x \in S : \A y \in S : x <= y
         IN  <<m>> \o Ascending(S \ {m})

\* line 120 tested `title.lower() in book.title.lower()`
found_books_substring(bks, title) ==
    Ascending({i \in 1..Len(bks) : IsSubstring(Lower(title), Lower(bks[i].title))})

\* line 120: found_books, as the references it holds
found_books(bks, title) ==
    Ascending({i \in 1..Len(bks) : Lower(bks[i].title) = Lower(title)})

\* remove_book; faults are the faults its save may meet.  choice is the first number typed that the loop of lines
\* 131-142 accepts (any other answer prints a message and asks again).
remove_book(raw, faults) ==
    /\ pc = "menu"
    /\ LET title == Strip(raw)
           found == found_books(books, title)
       IN  \/ /\ found = <<>>
              /\ last' = [name |-> "remove", input |-> raw, found |-> found,
                          saved |-> FALSE,
                          out |-> <<"No book found with that title.">>]
              /\ UNCHANGED <<books, file, pc>>
           \/ /\ Len(found) > 1
              /\ \E choice \in 1..Len(found), fault \in faults :
                 LET after == ListRemove(books, found[choice])
                     s == save_library(after, file, fault)
                 IN  /\ books' = after
                     /\ file' = s.file
                     /\ last' = [name |-> "remove", input |-> raw, found |-> found,
                                 choice |-> choice, saved |-> TRUE, fault |-> s.failure,
                                 afterFailed |-> PrevSaveFailed,
                                 saveSeen |-> [returned |-> s.returned, raised |-> s.raised],
                                 out |-> <<"Multiple books found with that title:">>
                                         \o s.printed \o <<"Book removed successfully!">>]
                     /\ UNCHANGED pc
           \/ /\ Len(found) = 1
              /\ \E fault \in faults :
                 LET after == ListRemove(books, found[1])
                     s == save_library(after, file, fault)
                 IN  /\ books' = after
                     /\ file' = s.file
                     /\ last' = [name |-> "remove", input |-> raw, found |-> found,
                                 choice |-> 1, saved |-> TRUE, fault |-> s.failure,
                                 afterFailed |-> PrevSaveFailed,
                                 saveSeen |-> [returned |-> s.returned, raised |-> s.raised],
                                 out |-> s.printed \o <<"Book removed successfully!">>]
                     /\ UNCHANGED pc

(***************************************************************************)
(* search_books                                                            *)
(***************************************************************************)

\* What the user types at search_books's term prompt
SearchInputs == { <<>>, <<32>>, <<32, 85>>, <<65, 66>>, <<120>> }

\* The field choice 1 or 2 selects
SearchField(book, choice) == IF choice = 1 THEN book.title ELSE book.author

\* lines 167/169 tested `search_term in book.title` (no lower())
Matches_cased(bks, choice, search_term) ==
    SelectSeq(bks, LAMBDA b : IsSubstring(search_term, SearchField(b, choice)))

\* lines 166-169: results
Matches(bks, choice, search_term) ==
    SelectSeq(bks, LAMBDA b : IsSubstring(search_term, Lower(SearchField(b, choice))))

\* search_books.  choice is the 1 or 2 the loop of lines 155-162 accepts.
search_books(choice, raw) ==
    /\ pc = "menu"
    /\ LET search_term == Lower(Strip(raw))
           results == Matches(books, choice, search_term)
       IN  last' = [name |-> "search", choice |-> choice, input |-> raw,
                    results |-> results,
                    out |-> IF results = <<>> THEN <<"No matching books found.">>
                            ELSE <<"Matching Books:">>]
    /\ UNCHANGED <<books, file, pc>>

(***************************************************************************)
(* display_statistics                                                      *)
(***************************************************************************)

\* lines 203-205: the dict genres as its items in insertion order; a key
\* seen again keeps its place and its count grows by one
RECURSIVE CountGenres(_, _)
CountGenres(bks, genres) ==
    IF bks = <<>> THEN genres
    ELSE LET g == Head(bks).genre
             at == {i \in 1..Len(genres) : genres[i][1] = g}
         IN  CountGenres(Tail(bks),
                 IF at = {} THEN Append(genres, <<g, 1>>)
                 ELSE [i \in 1..Len(genres) |->
                          IF i \in at THEN <<g, genres[i][2] + 1>> ELSE genres[i]])

\* The place of item x in a list sorted by count, largest first: sorted() is
\* stable, also with reverse=True, so x goes after the items of equal count
RECURSIVE InsertByCount(_, _)
InsertByCount(sorted, x) ==
    IF sorted = <<>> THEN <<x>>
    ELSE IF Head(sorted)[2] >= x[2] THEN <<Head(sorted)>> \o InsertByCount(Tail(sorted), x)
    ELSE <<x>> \o sorted

\* sorted(items, key=count) and then reversed: equal counts end up reversed
RECURSIVE SortedByCount_reversed(_)
SortedByCount_reversed(items) ==
    IF items = <<>> THEN <<>>
    ELSE InsertByCount(SortedByCount_reversed(Tail(items)), Head(items))

\* line 208: sorted(genres.items(), key=lambda x: x[1], reverse=True)
RECURSIVE SortedByCount(_)
SortedByCount(items) ==
    IF items = <<>> THEN <<>>
    ELSE InsertByCount(SortedByCount(SubSeq(items, 1, Len(items) - 1)), items[Len(items)])

\* display_statistics: the figures it prints
display_statistics ==
    /\ pc = "menu"
    /\ LET total_books == Len(books)
           read_books == Cardinality({i \in 1..Len(books) : books[i].read})
       IN  last' = IF total_books = 0
                   THEN [name |-> "stats", total |-> 0, read_books |-> 0, genres |-> <<>>,
                         out |-> <<"No books in the library.">>]
                   ELSE [name |-> "stats", total |-> total_books, read_books |-> read_books,
                         genres |-> SortedByCount(CountGenres(books, <<>>)),
                         out |-> <<"Total books:", "Percentage read:", "Books by genre:">>]
    /\ UNCHANGED <<books, file, pc>>

Next ==
    \/ Start
    \/ Restart
    \/ \E inp \in AddInputs : add_book(inp, Faults)
    \/ \E raw \in RemoveInputs : remove_book(raw, Faults)

Spec == Init /\ [][Next]_vars

\* The menu with its two queries.  Neither reads the file, and a fault
\* changes nothing in the catalog an add or a remove leaves, so the saves
\* here meet none: the catalogs queried are those of Spec.
NextQuery ==
    \/ Start
    \/ \E inp \in AddInputs : add_book(inp, {"none"})
    \/ \E raw \in RemoveInputs : remove_book(raw, {"none"})
    \/ \E choice \in {1, 2}, raw \in SearchInputs : search_books(choice, raw)
    \/ display_statistics

SpecQuery == Init /\ [][NextQuery]_vars

(***************************************************************************)
(* Properties                                                              *)
(***************************************************************************)

\* The last operation was an add or a remove that called save_library
SaveRan == last.name \in {"add", "remove"} /\ last.saved

\* The text that holds the records of bks, in order: a list with one mapping
\* per record, each of exactly the five fields
Serialization(bks) ==
    [kind |-> "json",
     value |-> [t |-> "list",
                items |-> [i \in 1..Len(bks) |->
                    [t |-> "dict",
                     m |-> [k \in {"title", "author", "year", "genre", "read"} |->
                              CASE k = "title" -> bks[i].title
                                [] k = "author" -> bks[i].author
                                [] k = "year" -> bks[i].year
                                [] k = "genre" -> bks[i].genre
                                [] OTHER -> bks[i].read]]]]]

\* C1: whenever an add or a remove has returned and the save it triggered
\* succeeded, the file exists and its content is exactly the serialization of
\* the whole in-memory catalog, also when the save before it had failed.
C1_FileIsCatalogAfterSave ==
    (SaveRan /\ last.fault = "none")
        => (file.exists /\ file.content = Serialization(books))

\* C1 witness: a save succeeded right after a failed one, on a catalog of
\* several records.
C1_Witness ==
    /\ SaveRan /\ last.fault = "none" /\ last.afterFailed
    /\ Len(books) >= 2
    /\ file.content = Serialization(books)

\* C2 (as claimed): constructing the store completes for every state of the
\* backing file; no exception leaves load_library.
C2_LoadNeverRaises ==
    (last.name = "load") => (last.raised = "none" /\ pc = "menu")

\* What the caller of save_library gets back from a save that succeeded
SuccessfulSaveSeen ==
    LET s == save_library(books, File(TRUE, TRUE, TRUE, Garbage), "none")
    IN  [returned |-> s.returned, raised |-> s.raised]

\* C3 (as claimed): when the save met an I/O failure, what add or remove gets
\* back from save_library differs from what a successful save gives it.
C3_SaveFailureSignalled ==
    (SaveRan /\ last.fault # "none") => (last.saveSeen # SuccessfulSaveSeen)

\* The save of the last operation succeeded
SavedOk == SaveRan /\ last.fault = "none"

\* C4: a successful save followed by a load from the same file (the program
\* is left and run again) yields the saved catalog: as many records, with
\* the same five field values, in the same order.
C4_RoundTrip ==
    [][(pc = "menu" /\ SavedOk /\ last'.name = "load")
          => /\ pc' = "menu"
             /\ Len(books') = Len(books)
             /\ \A i \in 1..Len(books) :
                    /\ books'[i].title = books[i].title
                    /\ books'[i].author = books[i].author
                    /\ books'[i].year = books[i].year
                    /\ books'[i].genre = books[i].genre
                    /\ books'[i].read = books[i].read]_vars

\* C4 witness: a catalog of several records, one of them added in an earlier
\* run (no initial file holds the title "Em"), has been loaded.
C4_Witness ==
    /\ last.name = "load" /\ pc = "menu"
    /\ Len(books) >= 2
    /\ \E i \in 1..Len(books) : books[i].title = <<69, 109>>
    /\ \E i \in 1..Len(books) : books[i].title # books[i].author

\* The positions of the records whose title equals title, case ignored
TitleMatches(bks, title) ==
    {i \in 1..Len(bks) : Lower(bks[i].title) = Lower(title)}

\* bks with the record at position p taken out, the others in their order
Without(bks, p) ==
    [j \in 1..(Len(bks) - 1) |-> IF j < p THEN bks[j] ELSE bks[j + 1]]

\* C5: when the title typed matches more than one record, the candidates are
\* all the case-insensitive title matches in catalog order, and choosing
\* candidate k removes the record at the k-th match's position and no other.
C5_RemovesChosenMatch ==
    [][(last'.name = "remove" /\ Cardinality(TitleMatches(books, Strip(last'.input))) > 1)
          => LET cands == last'.found
                 k == last'.choice
             IN  /\ Len(cands) = Cardinality(TitleMatches(books, Strip(last'.input)))
                 /\ \A a \in 1..Len(cands) : cands[a] \in TitleMatches(books, Strip(last'.input))
                 /\ \A a, b \in 1..Len(cands) : a < b => cands[a] < cands[b]
                 /\ k \in 1..Len(cands)
                 /\ books' = Without(books, cands[k])]_vars

\* C5 witness: the second of two matches was removed from a catalog of at
\* least three records, whose first match and one other record remain.
C5_Witness ==
    /\ last.name = "remove" /\ last.saved
    /\ Len(last.found) = 2 /\ last.choice = 2
    /\ Len(books) >= 2
    /\ TitleMatches(books, Strip(last.input)) # {}
    /\ \E i \in 1..Len(books) : i \notin TitleMatches(books, Strip(last.input))

\* The file parses to a list of mappings
IsListOfMappings(f) ==
    /\ f.exists /\ f.readable
    /\ f.content.kind = "json"
    /\ f.content.value.t = "list"
    /\ \A i \in 1..Len(f.content.value.items) : f.content.value.items[i].t = "dict"

\* Some record of the file lacks one of the five fields
SomeRecordLacksField(f) ==
    \E i \in 1..Len(f.content.value.items) :
        \E k \in {"title", "author", "year", "genre", "read"} :
            k \notin DOMAIN f.content.value.items[i].m

\* C6: when the file parses to a list of record mappings one of which lacks
\* a required field, the load ends with an empty catalog and the load error
\* printed: no record of the file is in the catalog.
C6_MalformedRecordEmptiesLoad ==
    (last.name = "load" /\ IsListOfMappings(file) /\ SomeRecordLacksField(file))
        => /\ pc = "menu"
           /\ books = <<>>
           /\ last.out = <<"Error loading library file. Starting with empty library.">>

\* C6 witness: the file loaded holds a well-formed record and, after it, one
\* without its year.
C6_Witness ==
    /\ last.name = "load" /\ IsListOfMappings(file)
    /\ Len(file.content.value.items) = 2
    /\ DOMAIN file.content.value.items[1].m = {"title", "author", "year", "genre", "read"}
    /\ "year" \notin DOMAIN file.content.value.items[2].m
    /\ books = <<>>

\* C7: add puts the new record (the answers typed, the texts stripped) last
\* in the catalog and leaves every earlier record as it was and where it
\* was, whether the title is already there or not, and whether the save
\* succeeds or fails.
C7_AddAppends ==
    [][(last'.name = "add")
          => /\ Len(books') = Len(books) + 1
             /\ \A i \in 1..Len(books) : books'[i] = books[i]
             /\ books'[Len(books')] =
                    [title |-> Strip(last'.input.title),
                     author |-> Strip(last'.input.author),
                     year |-> last'.input.year,
                     genre |-> Strip(last'.input.genre),
                     read |-> (last'.input.read = "yes")]]_vars

\* C7 witness: a record whose title was already in the catalog has been
\* added, the save failed, and the record is in the catalog, last.
C7_Witness ==
    /\ last.name = "add" /\ last.fault # "none"
    /\ Len(books) >= 3
    /\ books[Len(books)].title = Strip(last.input.title)
    /\ \E i \in 1..(Len(books) - 1) : books[i].title = books[Len(books)].title
    /\ \E i \in 1..(Len(books) - 1) : books[i].title # books[Len(books)].title

\* The field of a record that a search looks at: 1 the title, 2 the author
FieldSearched(b, choice) ==
    CASE choice = 1 -> b.title
      [] choice = 2 -> b.author

\* s contains t, case ignored
ContainsNoCase(s, t) ==
    \E i \in 1..(Len(s) + 1) :
        /\ i + Len(t) - 1 <= Len(s)
        /\ \A j \in 1..Len(t) : LowerChar(s[i + j - 1]) = LowerChar(t[j])

\* The positions of the records a search for term must return
SearchHits(bks, choice, term) ==
    {i \in 1..Len(bks) : ContainsNoCase(FieldSearched(bks[i], choice), term)}

\* C8: a search returns exactly the records whose selected field contains
\* the term (the text typed, stripped), case ignored, in catalog order, and
\* leaves the catalog as it was; so an empty term returns every record and a
\* term found nowhere returns none.
C8_SearchResults ==
    [][(last'.name = "search")
          => LET hits == SearchHits(books, last'.choice, Strip(last'.input))
                 res == last'.results
             IN  /\ books' = books
                 /\ Len(res) = Cardinality(hits)
                 /\ \A i \in hits : res[Cardinality({j \in hits : j <= i})] = books[i]
                 /\ (Strip(last'.input) = <<>> => res = books)]_vars

\* C8 witness: a search by title for " U" returned two of the catalog's
\* records and left another out.
C8_Witness ==
    /\ last.name = "search" /\ last.choice = 1 /\ last.input = <<32, 85>>
    /\ Len(last.results) = 2
    /\ Len(books) > 2
    /\ last.results[1].title # last.results[2].title

\* The number of records of bks with genre g
GenreCount(bks, g) == Cardinality({i \in 1..Len(bks) : bks[i].genre = g})

\* The position of the first record of bks with genre g
FirstSeen(bks, g) ==
    CHOOSE i \in 1..Len(bks) :
        bks[i].genre = g /\ \A j \in 1..(i - 1) : bks[j].genre # g

\* C9: the genre counts of the statistics name each genre of the catalog
\* once, with the number of records of that genre, ordered by count
\* descending and, among equal counts, by first appearance in the catalog.
C9_GenreCounts ==
    (last.name = "stats" /\ Len(books) > 0)
        => LET gc == last.genres
           IN  /\ {gc[i][1] : i \in 1..Len(gc)} = {books[i].genre : i \in 1..Len(books)}
               /\ \A i, j \in 1..Len(gc) : i # j => gc[i][1] # gc[j][1]
               /\ \A i \in 1..Len(gc) : gc[i][2] = GenreCount(books, gc[i][1])
               /\ \A i, j \in 1..Len(gc) :
                      i < j => \/ gc[i][2] > gc[j][2]
                               \/ /\ gc[i][2] = gc[j][2]
                                  /\ FirstSeen(books, gc[i][1]) < FirstSeen(books, gc[j][1])

\* C9 witness: the statistics of a catalog with genres SF, Fa, SF, Fa give
\* (SF, 2) and then (Fa, 2).
C9_Witness ==
    /\ last.name = "stats"
    /\ Len(books) = 4
    /\ [i \in 1..4 |-> books[i].genre] = << <<83, 70>>, <<70, 97>>, <<83, 70>>, <<70, 97>> >>
    /\ last.genres = << << <<83, 70>>, 2 >>, << <<70, 97>>, 2 >> >>

\* C10: a removal whose title matches no record, case ignored, prints that
\* no book was found and changes nothing: not the catalog, not the file, and
\* save_library is not called.
C10_RemoveNotFound ==
    [][(last'.name = "remove" /\ TitleMatches(books, Strip(last'.input)) = {})
          => /\ books' = books
             /\ file' = file
             /\ ~last'.saved
             /\ last'.out = <<"No book found with that title.">>]_vars

\* C10 witness: a removal found nothing in a catalog of several records while
\* the file does not hold the catalog (a save would have changed the file),
\* one title of the catalog containing the text typed.
C10_Witness ==
    /\ last.name = "remove" /\ ~last.saved
    /\ Len(books) >= 2
    /\ file.content # Serialization(books)
    /\ \E i \in 1..Len(books) : IsSubstring(Lower(Strip(last.input)), Lower(books[i].title))

====
